---------------------------- MODULE Spec2Model ----------------------------
(***************************************************************************)
(* ft_linear_regression: single-variable linear regression trained by      *)
(* batch gradient descent (linear_regression.py) and the price predictor   *)
(* (predict.py).                                                           *)
(*                                                                         *)
(* Python floats are IEEE-754 binary floating point numbers.  They are     *)
(* modelled by a scaled-down binary format with the same rules: a finite   *)
(* value is m * 2^e with |m| < 2^Precision and -MaxExp <= e <= MaxExp,      *)
(* every operation is the exact result rounded to nearest (ties to even),  *)
(* a result too large becomes +/-inf, inf - inf and 0 * inf are nan, and   *)
(* division by zero raises ZeroDivisionError.  The sign of zero is not     *)
(* modelled (no operation of the program observes it).                     *)
(***************************************************************************)
EXTENDS Integers, Sequences, FiniteSets, TLC

\* ------------------------------------------------------------- bounds
Precision == 3      \* bits of the significand (53 in binary64)
MaxExp    == 2      \* largest exponent of the unit in the last place
MaxCars   == 2      \* longest dataset
MaxEpochs == 3      \* largest epoch count
MaxNormCars == 3    \* longest dataset given to normalize_cars alone

\* ------------------------------------------------------ float values
Abs(i) == IF i < 0 THEN -i ELSE i

Sgn(i) == IF i < 0 THEN -1 ELSE IF i = 0 THEN 0 ELSE 1

RECURSIVE GCD(_, _)
GCD(a, b) == IF b = 0 THEN a ELSE GCD(b, a % b)

\* The finite value n/d in lowest terms.
Fin(n, d) ==
    LET g == GCD(Abs(n), d)
    IN  [k |-> "fin", n |-> n \div g, d |-> d \div g]

Zero == [k |-> "fin", n |-> 0, d |-> 1]
One  == [k |-> "fin", n |-> 1, d |-> 1]
NaN  == [k |-> "nan", n |-> 0, d |-> 1]
Inf(s) == [k |-> "inf", n |-> s, d |-> 1]

isnan(a) == a.k = "nan"
isfinite(a) == a.k = "fin"
IsZero(a) == a.k = "fin" /\ a.n = 0

\* Round to nearest, ties to even, of p/q for naturals p and q > 0.
RoundHalfEven(p, q) ==
    LET f == p \div q
        r == p % q
    IN  IF 2 * r < q THEN f
        ELSE IF 2 * r > q THEN f + 1
        ELSE IF f % 2 = 0 THEN f ELSE f + 1

\* The exponent e >= -MaxExp of the unit in the last place of p/q > 0:
\* the least one with p/q < 2^(Precision + e).
RECURSIVE UlpExp(_, _, _)
UlpExp(p, q, e) ==
    IF e >= 0
    THEN IF p < q * 2^(Precision + e) THEN e ELSE UlpExp(p, q, e + 1)
    ELSE IF p * 2^(-e) < q * 2^Precision THEN e ELSE UlpExp(p, q, e + 1)

\* The float nearest to the exact value n/d (d > 0): what every arithmetic
\* operation and every conversion to float returns.
Round(n, d) ==
    IF n = 0 THEN Zero
    ELSE LET p == Abs(n)
             e == UlpExp(p, d, -MaxExp)
         IN  IF e > MaxExp THEN Inf(Sgn(n))
             ELSE LET m == IF e >= 0 THEN RoundHalfEven(p, d * 2^e)
                                     ELSE RoundHalfEven(p * 2^(-e), d)
                  IN  IF e = MaxExp /\ m = 2^Precision THEN Inf(Sgn(n))
                      ELSE IF e >= 0 THEN Fin(Sgn(n) * m * 2^e, 1)
                      ELSE Fin(Sgn(n) * m, 2^(-e))

FNeg(a) == [a EXCEPT !.n = -a.n]

\* a + b
FAdd(a, b) ==
    IF isnan(a) \/ isnan(b) THEN NaN
    ELSE IF a.k = "inf" /\ b.k = "inf" THEN (IF a.n = b.n THEN a ELSE NaN)
    ELSE IF a.k = "inf" THEN a
    ELSE IF b.k = "inf" THEN b
    ELSE Round(a.n * b.d + b.n * a.d, a.d * b.d)

\* a - b
FSub(a, b) == FAdd(a, FNeg(b))

\* a * b
FMul(a, b) ==
    IF isnan(a) \/ isnan(b) THEN NaN
    ELSE IF a.k = "inf" \/ b.k = "inf"
         THEN (IF a.n = 0 \/ b.n = 0 THEN NaN ELSE Inf(Sgn(a.n) * Sgn(b.n)))
    ELSE Round(a.n * b.n, a.d * b.d)

\* Mutant: division by zero gives nan instead of raising.
DivNeverRaises(b) == FALSE

\* a / b raises ZeroDivisionError when b is zero, whatever a is.
DivRaises(b) == IsZero(b)

\* a / b for b other than zero.
FDiv(a, b) ==
    IF isnan(a) \/ isnan(b) \/ IsZero(b) THEN NaN
    ELSE IF a.k = "inf" THEN (IF b.k = "inf" THEN NaN ELSE Inf(a.n * Sgn(b.n)))
    ELSE IF b.k = "inf" THEN Zero
    ELSE Round(Sgn(b.n) * a.n * b.d, a.d * Abs(b.n))

\* a < b and a <= b on floats other than nan.
FLess(a, b) ==
    IF a.k = "inf" THEN a.n < 0 /\ ~(b.k = "inf" /\ b.n < 0)
    ELSE IF b.k = "inf" THEN b.n > 0
    ELSE a.n * b.d < b.n * a.d

FLeq(a, b) == a = b \/ FLess(a, b)

\* ------------------------------------------------- linear_regression.py
\* A text (a cell of the CSV file, the value of an environment variable):
\* the decimal text of the number n/d, or text that is no number.
NumCell(n, d) == [num |-> TRUE, n |-> n, d |-> d]
BadCell == [num |-> FALSE, n |-> 0, d |-> 1]

\* float(text) of a numeric text: the float nearest to the number written.
float(cell) == Round(cell.n, cell.d)

Car(km, price) == [km |-> km, price |-> price]

VARIABLES
    csv,            \* the file at CSV_PATH: [headings, rows]
    learning_rate,  \* --learning_rate
    epochs,         \* --epochs
    normalize_km,   \* --normalize
    env,            \* os.environ at the two names predict.py reads
    mileage,        \* --mileage
    pc,             \* where the process is
    csv_cars,       \* the list read_csv returned
    cars,           \* the list main's name cars is bound to
    n_cars, min_km, max_km,
    t0, t1,
    epoch,          \* the loop variable _ of the epoch loop
    i,              \* position of the inner loop in cars
    accum_error_t0, accum_error_t1,
    temp_t0, temp_t1,
    out,            \* what was printed, in order
    err,            \* the exception raised, "" when none
    status,         \* the exit status, -1 while running
    updates,        \* history: how many times lines 153-154 ran
    t0_norm, t1_norm \* history: t0 and t1 as line 161 read them

vars == <<csv, learning_rate, epochs, normalize_km, env, mileage, pc, csv_cars,
          cars, n_cars, min_km, max_km, t0, t1, epoch, i, accum_error_t0,
          accum_error_t1, temp_t0, temp_t1, out, err, status, updates,
          t0_norm, t1_norm>>

args == <<csv, learning_rate, epochs, normalize_km, env, mileage>>
data == <<csv_cars, cars, n_cars, min_km, max_km>>
theta == <<t0, t1>>
accum == <<accum_error_t0, accum_error_t1>>
temp == <<temp_t0, temp_t1>>
hist == <<updates, t0_norm, t1_norm>>

\* read_csv's two assertions on the header.
HeadingsOk(f) == f.headings[1] = "km" /\ f.headings[2] = "price"

\* read_csv's list comprehension raises ValueError on text that is no number.
RowsNumeric(f) == \A r \in 1..Len(f.rows) : f.rows[r][1].num /\ f.rows[r][2].num

\* read_csv: the exception it raises ("" when none) and the list it returns.
read_csv(f) ==
    IF ~HeadingsOk(f) THEN [exc |-> "AssertionError", ret |-> <<>>]
    ELSE IF ~RowsNumeric(f) THEN [exc |-> "ValueError", ret |-> <<>>]
    ELSE [exc |-> "",
          ret |-> [r \in 1..Len(f.rows) |->
                     Car(float(f.rows[r][1]), float(f.rows[r][2]))]]

estimate_price(th0, th1, km) == FAdd(th0, FMul(th1, km))

\* normalize raises ZeroDivisionError when max_range - min_range is zero.
normalize_raises(min_range, max_range) == DivRaises(FSub(max_range, min_range))

\* Mutant: divides by the maximum instead of the range.
normalize_by_max(n, min_range, max_range) ==
    FDiv(FSub(n, min_range), max_range)

normalize(n, min_range, max_range) ==
    FDiv(FSub(n, min_range), FSub(max_range, min_range))

\* Mutant: the intercept is shifted by the normalized slope.
denormalize_theta_raw_slope(th0, th1, min_range, max_range) ==
    LET t1_denorm == FDiv(th1, FSub(max_range, min_range))
        t0_denorm == FSub(th0, FMul(th1, min_range))
    IN  <<t0_denorm, t1_denorm>>

denormalize_theta(th0, th1, min_range, max_range) ==
    LET t1_denorm == FDiv(th1, FSub(max_range, min_range))
        t0_denorm == FSub(th0, FMul(t1_denorm, min_range))
    IN  <<t0_denorm, t1_denorm>>

\* min(car.km for car in cars) and max(car.km for car in cars).
RECURSIVE MinKm(_)
MinKm(cs) ==
    IF Len(cs) = 1 THEN cs[1].km
    ELSE LET m == MinKm(SubSeq(cs, 1, Len(cs) - 1))
         IN  IF FLess(cs[Len(cs)].km, m) THEN cs[Len(cs)].km ELSE m

RECURSIVE MaxKm(_)
MaxKm(cs) ==
    IF Len(cs) = 1 THEN cs[1].km
    ELSE LET m == MaxKm(SubSeq(cs, 1, Len(cs) - 1))
         IN  IF FLess(m, cs[Len(cs)].km) THEN cs[Len(cs)].km ELSE m

\* Mutant: an empty list gives (0.0, 0.0) instead of raising.
get_minmax_default(cs) ==
    IF cs = <<>> THEN [exc |-> "", min |-> Zero, max |-> Zero]
    ELSE [exc |-> "", min |-> MinKm(cs), max |-> MaxKm(cs)]

\* get_minmax: min() of an empty sequence raises ValueError.
get_minmax(cs) ==
    IF cs = <<>> THEN [exc |-> "ValueError", min |-> Zero, max |-> Zero]
    ELSE [exc |-> "", min |-> MinKm(cs), max |-> MaxKm(cs)]

\* normalize_cars: the exception it raises, the list it returns (ret) and
\* the list it was given as the call leaves it (arg).
normalize_cars(cs) ==
    LET mm == get_minmax(cs)
    IN  IF mm.exc # "" THEN [exc |-> mm.exc, ret |-> <<>>, arg |-> cs]
        ELSE IF cs # <<>> /\ normalize_raises(mm.min, mm.max)
        THEN [exc |-> "ZeroDivisionError", ret |-> <<>>, arg |-> cs]
        ELSE [exc |-> "",
              ret |-> [c \in 1..Len(cs) |->
                         Car(normalize(cs[c].km, mm.min, mm.max), cs[c].price)],
              arg |-> cs]

Raise(e) == pc' = "raised" /\ err' = e

\* What one print call wrote: which message, and the numbers formatted into it.
Printed(kind, n, vals) == [kind |-> kind, epoch |-> n, vals |-> vals]

\* ------------------------------------------------------------- inputs
KmTexts == {0, 1, 3}
PriceTexts == {0, 2, 5}
LearningRates == {Fin(1, 2), Fin(4, 1)}

\* The rows of up to len cars with mileages kms and prices prices.
RowsOf(kms, prices, len) ==
    UNION {[1..n -> {<<NumCell(a, 1), NumCell(b, 1)>> : a \in kms, b \in prices}]
           : n \in 0..len}

Rows == RowsOf(KmTexts, PriceTexts, MaxCars)

\* Files with the expected header and numeric rows, files with the columns
\* swapped in the header, and files with one cell that is no number.
Files ==
    {[headings |-> <<"km", "price">>, rows |-> r] : r \in Rows}
    \cup {[headings |-> <<"price", "km">>, rows |-> r] : r \in {q \in Rows : Len(q) <= 1}}
    \cup {[headings |-> <<"km", "price">>,
           rows |-> [r EXCEPT ![Len(r)] = <<r[Len(r)][1], BadCell>>]]
          : r \in {q \in Rows : Len(q) >= 1}}

NoFile == [headings |-> <<"km", "price">>, rows |-> <<>>]

\* An environment variable that is not set.
Absent == [num |-> FALSE, n |-> -1, d |-> 1]
NoEnv == [name \in {"T0_ENVAR_NAME", "T1_ENVAR_NAME"} |-> Absent]

\* The variables as they are before any statement of a program has run.
Fresh ==
    /\ csv_cars = <<>> /\ cars = <<>> /\ n_cars = 0
    /\ min_km = Zero /\ max_km = Zero
    /\ t0 = Zero /\ t1 = Zero
    /\ epoch = 0 /\ i = 0
    /\ accum_error_t0 = Zero /\ accum_error_t1 = Zero
    /\ temp_t0 = Zero /\ temp_t1 = Zero
    /\ out = <<>> /\ err = "" /\ status = -1
    /\ updates = 0 /\ t0_norm = Zero /\ t1_norm = Zero

\* python linear_regression.py -l learning_rate -e epochs [-n]
Init ==
    /\ csv \in Files
    /\ learning_rate \in LearningRates
    /\ epochs \in 1..MaxEpochs
    /\ normalize_km \in BOOLEAN
    /\ env = NoEnv /\ mileage = 0
    /\ pc = "main"
    /\ Fresh

\* ------------------------------------------------------------ main()
\* cars = read_csv(Path(CSV_PATH)); n_cars = len(cars)
ReadCsv ==
    /\ pc = "main"
    /\ IF read_csv(csv).exc # ""
       THEN Raise(read_csv(csv).exc) /\ UNCHANGED data
       ELSE /\ csv_cars' = read_csv(csv).ret
            /\ cars' = read_csv(csv).ret
            /\ n_cars' = Len(read_csv(csv).ret)
            /\ pc' = "get_minmax"
            /\ UNCHANGED <<min_km, max_km, err>>
    /\ UNCHANGED <<args, theta, epoch, i, accum, temp, out, status, hist>>

\* min_km, max_km = get_minmax(cars)
GetMinMax ==
    /\ pc = "get_minmax"
    /\ IF get_minmax(cars).exc # ""
       THEN Raise(get_minmax(cars).exc) /\ UNCHANGED <<min_km, max_km>>
       ELSE /\ min_km' = get_minmax(cars).min
            /\ max_km' = get_minmax(cars).max
            /\ pc' = IF normalize_km THEN "normalize" ELSE "theta"
            /\ err' = err
    /\ UNCHANGED <<args, csv_cars, cars, n_cars, theta, epoch, i, accum, temp,
                   out, status, hist>>

\* if normalize_km: cars = normalize_cars(cars)
NormalizeCars ==
    /\ pc = "normalize"
    /\ csv_cars' = normalize_cars(cars).arg
    /\ IF normalize_cars(cars).exc # ""
       THEN Raise(normalize_cars(cars).exc) /\ cars' = cars
       ELSE /\ cars' = normalize_cars(cars).ret
            /\ pc' = "theta"
            /\ err' = err
    /\ UNCHANGED <<args, n_cars, min_km, max_km, theta, epoch, i, accum, temp,
                   out, status, hist>>

\* t0 = 0.0; t1 = 0.0
InitTheta ==
    /\ pc = "theta"
    /\ t0' = Zero /\ t1' = Zero
    /\ epoch' = 0
    /\ pc' = "for_epoch"
    /\ UNCHANGED <<args, data, i, accum, temp, out, err, status, hist>>

\* for _ in range(epochs): accum_error_t0 = 0.0; accum_error_t1 = 0.0
ForEpoch ==
    /\ pc = "for_epoch"
    /\ IF epoch < epochs
       THEN /\ accum_error_t0' = Zero /\ accum_error_t1' = Zero
            /\ i' = 1
            /\ pc' = "for_car"
       ELSE /\ pc' = IF normalize_km THEN "denormalize" ELSE "print"
            /\ UNCHANGED <<i, accum>>
    /\ UNCHANGED <<args, data, theta, epoch, temp, out, err, status, hist>>

\* One pass of the body of: for car in cars
ForCar ==
    /\ pc = "for_car"
    /\ i <= Len(cars)
    /\ LET error_t0 == FSub(estimate_price(t0, t1, cars[i].km), cars[i].price)
           error_t1 == FMul(error_t0, cars[i].km)
       IN  /\ accum_error_t0' = FAdd(accum_error_t0, error_t0)
           /\ accum_error_t1' = FAdd(accum_error_t1, error_t1)
    /\ i' = i + 1
    /\ UNCHANGED <<args, data, theta, epoch, temp, pc, out, err, status, hist>>

\* Mutant: the sums are not divided by the number of cars.
StepFactorNoMean(lr, n) == lr

\* learning_rate * (1 / n_cars), the factor of both updates; 1 / n_cars
\* divides two ints and gives the float nearest to the quotient.
StepFactor(lr, n) == FMul(lr, Round(1, n))

\* temp_t0 = ...; temp_t1 = ...; t0 -= temp_t0; t1 -= temp_t1
Update ==
    /\ pc = "for_car"
    /\ i > Len(cars)
    /\ IF n_cars = 0
       THEN Raise("ZeroDivisionError") /\ UNCHANGED <<theta, temp, updates>>
       ELSE /\ temp_t0' = FMul(StepFactor(learning_rate, n_cars), accum_error_t0)
            /\ temp_t1' = FMul(StepFactor(learning_rate, n_cars), accum_error_t1)
            /\ t0' = FSub(t0, temp_t0')
            /\ t1' = FSub(t1, temp_t1')
            /\ updates' = updates + 1
            /\ pc' = "isnan"
            /\ err' = err
    /\ UNCHANGED <<args, data, epoch, i, accum, out, status, t0_norm, t1_norm>>

\* The test that ends the run: math.isnan(t0) or math.isnan(t1)
Diverged(th0, th1) == isnan(th0) \/ isnan(th1)

\* if math.isnan(t0) or math.isnan(t1): print(...); return
CheckNan ==
    /\ pc = "isnan"
    /\ IF Diverged(t0, t1)
       THEN /\ out' = Append(out, Printed("On epoch", epoch, <<t0, t1, temp_t0, temp_t1>>))
            /\ pc' = "return"
            /\ epoch' = epoch
       ELSE /\ epoch' = epoch + 1
            /\ pc' = "for_epoch"
            /\ out' = out
    /\ UNCHANGED <<args, data, theta, i, accum, temp, err, status, hist>>

\* if normalize_km: t0, t1 = denormalize_theta(t0, t1, min_km, max_km)
Denormalize ==
    /\ pc = "denormalize"
    /\ IF DivRaises(FSub(max_km, min_km))
       THEN Raise("ZeroDivisionError") /\ UNCHANGED <<theta, t0_norm, t1_norm>>
       ELSE /\ t0' = denormalize_theta(t0, t1, min_km, max_km)[1]
            /\ t1' = denormalize_theta(t0, t1, min_km, max_km)[2]
            /\ t0_norm' = t0 /\ t1_norm' = t1
            /\ pc' = "print"
            /\ err' = err
    /\ UNCHANGED <<args, data, epoch, i, accum, temp, out, status, updates>>

\* print("Optimized theta values:", ..., f"export ...={t0}", f"export ...={t1}")
PrintExport ==
    /\ pc = "print"
    /\ out' = Append(out, Printed("export", epoch, <<t0, t1>>))
    /\ pc' = "return"
    /\ UNCHANGED <<args, data, theta, epoch, i, accum, temp, err, status, hist>>

\* main returned: the script ends and the interpreter exits with status 0.
Return ==
    /\ pc = "return"
    /\ status' = 0
    /\ pc' = "exit"
    /\ UNCHANGED <<args, data, theta, epoch, i, accum, temp, out, err, hist>>

\* except Exception as err: print(f"ft_linear_regression: {err}"); exit(1)
Except ==
    /\ pc = "raised"
    /\ out' = Append(out, Printed("ft_linear_regression:", epoch, <<>>))
    /\ status' = 1
    /\ pc' = "exit"
    /\ UNCHANGED <<args, data, theta, epoch, i, accum, temp, err, hist>>

Next ==
    \/ ReadCsv \/ GetMinMax \/ NormalizeCars \/ InitTheta
    \/ ForEpoch \/ ForCar \/ Update \/ CheckNan
    \/ Denormalize \/ PrintExport \/ Return \/ Except

Spec == Init /\ [][Next]_vars

\* --------------------------------------------- normalization of any file
\* The largest finite float, and the least integer too large for a float.
MaxFloatInt == (2^Precision - 1) * 2^MaxExp
TooLargeInt == 2^Precision * 2^MaxExp

NormKmTexts == {0, 1, 3, 9, MaxFloatInt}
NormPriceTexts == {2, 5}

\* python linear_regression.py -l 0.5 -e 1 -n, followed up to line 135.
InitNormalize ==
    /\ csv \in {[headings |-> <<"km", "price">>, rows |-> r]
                : r \in RowsOf(NormKmTexts, NormPriceTexts, MaxNormCars)}
    /\ learning_rate = Fin(1, 2)
    /\ epochs = 1
    /\ normalize_km = TRUE
    /\ env = NoEnv /\ mileage = 0
    /\ pc = "main"
    /\ Fresh

NextNormalize == ReadCsv \/ GetMinMax \/ NormalizeCars

SpecNormalize == InitNormalize /\ [][NextNormalize]_vars

\* ------------------------------------- denormalization of any parameters
\* Every finite float.
FiniteFloats ==
    {Round(n, 2^MaxExp) : n \in -(MaxFloatInt * 2^MaxExp)..(MaxFloatInt * 2^MaxExp)}

DenormKmTexts == {0, 1, 3}

\* main() at line 160 of a run with --normalize on a file of two cars of
\* different mileage, the loop having left any finite t0 and t1.
InitDenormalize ==
    /\ \E a, b \in DenormKmTexts :
          /\ a < b
          /\ csv = [headings |-> <<"km", "price">>,
                    rows |-> <<<<NumCell(a, 1), NumCell(2, 1)>>,
                               <<NumCell(b, 1), NumCell(5, 1)>>>>]
    /\ learning_rate = Fin(1, 2)
    /\ epochs = 1
    /\ normalize_km = TRUE
    /\ env = NoEnv /\ mileage = 0
    /\ pc = "denormalize"
    /\ csv_cars = read_csv(csv).ret
    /\ cars = normalize_cars(read_csv(csv).ret).ret
    /\ n_cars = Len(read_csv(csv).ret)
    /\ min_km = get_minmax(read_csv(csv).ret).min
    /\ max_km = get_minmax(read_csv(csv).ret).max
    /\ t0 \in FiniteFloats /\ t1 \in FiniteFloats
    /\ epoch = 1 /\ i = 3
    /\ accum_error_t0 = Zero /\ accum_error_t1 = Zero
    /\ temp_t0 = Zero /\ temp_t1 = Zero
    /\ out = <<>> /\ err = "" /\ status = -1
    /\ updates = 1 /\ t0_norm = Zero /\ t1_norm = Zero

NextDenormalize == Denormalize

SpecDenormalize == InitDenormalize /\ [][NextDenormalize]_vars

\* ------------------------------------------------------------ predict.py
\* os.getenv(name, "0.0")
getenv(name) == IF env[name] = Absent THEN NumCell(0, 1) ELSE env[name]

\* float(text) raises ValueError on text that is no number.
float_raises(cell) == ~cell.num

\* The float an int is converted to when it meets a float in an operation;
\* an int too large for a float raises OverflowError.
int_to_float(m) == Round(m, 1)

int_to_float_raises(m) == ~isfinite(int_to_float(m))

EnvTexts == {Absent, NumCell(0, 1), NumCell(5, 2), NumCell(-3, 1), BadCell}
Mileages == {-3, 0, 1, 6, MaxFloatInt, TooLargeInt}

\* python predict.py -m mileage
InitPredict ==
    /\ env \in [{"T0_ENVAR_NAME", "T1_ENVAR_NAME"} -> EnvTexts]
    /\ mileage \in Mileages
    /\ csv = NoFile
    /\ learning_rate = Zero /\ epochs = 0 /\ normalize_km = FALSE
    /\ pc = "predict"
    /\ Fresh

\* t0 = float(os.getenv(T0_ENVAR_NAME, "0.0")); t1 = float(os.getenv(...))
PredictLoad ==
    /\ pc = "predict"
    /\ IF float_raises(getenv("T0_ENVAR_NAME"))
       THEN Raise("ValueError") /\ UNCHANGED theta
       ELSE IF float_raises(getenv("T1_ENVAR_NAME"))
       THEN Raise("ValueError") /\ t0' = float(getenv("T0_ENVAR_NAME")) /\ t1' = t1
       ELSE /\ t0' = float(getenv("T0_ENVAR_NAME"))
            /\ t1' = float(getenv("T1_ENVAR_NAME"))
            /\ pc' = "estimate"
            /\ err' = err
    /\ UNCHANGED <<args, data, epoch, i, accum, temp, out, status, hist>>

\* print(estimate_price(t0, t1, mileage))
PredictPrint ==
    /\ pc = "estimate"
    /\ IF int_to_float_raises(mileage)
       THEN Raise("OverflowError") /\ out' = out
       ELSE /\ out' = Append(out, Printed("price", 0,
                        <<estimate_price(t0, t1, int_to_float(mileage))>>))
            /\ pc' = "return"
            /\ err' = err
    /\ UNCHANGED <<args, data, theta, epoch, i, accum, temp, status, hist>>

\* except ValueError as err: print(f"ft_linear_regression: {err}"); exit(1)
PredictExcept ==
    /\ pc = "raised"
    /\ err = "ValueError"
    /\ out' = Append(out, Printed("ft_linear_regression:", 0, <<>>))
    /\ status' = 1
    /\ pc' = "exit"
    /\ UNCHANGED <<args, data, theta, epoch, i, accum, temp, err, hist>>

\* Any other exception leaves the script: the interpreter prints the
\* traceback and exits with status 1.
PredictUncaught ==
    /\ pc = "raised"
    /\ err # "ValueError"
    /\ out' = Append(out, Printed("Traceback", 0, <<>>))
    /\ status' = 1
    /\ pc' = "exit"
    /\ UNCHANGED <<args, data, theta, epoch, i, accum, temp, err, hist>>

NextPredict == PredictLoad \/ PredictPrint \/ PredictExcept \/ PredictUncaught \/ Return

SpecPredict == InitPredict /\ [][NextPredict]_vars

\* ------------------------------------------------------------- claims
Finite2(a, b) == isfinite(a) /\ isfinite(b)

Exports == {j \in 1..Len(out) : out[j].kind = "export"}

\* The dataset the file holds, when read_csv accepts the file.
Dataset == read_csv(csv).ret

WellFormed == read_csv(csv).exc = ""

AllSameKm(cs) == \A a, b \in 1..Len(cs) : cs[a].km = cs[b].km

InLoop == pc \in {"for_epoch", "for_car", "isnan"}

\* The least and the greatest km of a non-empty list.
LeastKm(cs) ==
    CHOOSE m \in {cs[j].km : j \in 1..Len(cs)} : \A j \in 1..Len(cs) : FLeq(m, cs[j].km)

GreatestKm(cs) ==
    CHOOSE m \in {cs[j].km : j \in 1..Len(cs)} : \A j \in 1..Len(cs) : FLeq(cs[j].km, m)

\* C1: after an epoch's update a non-finite t0 or t1 (nan, inf or -inf) ends
\* the run at that epoch, and no run prints non-finite fitted values in the
\* export statement.
C1_NonFiniteNeverContinuesNorPrinted ==
    /\ pc \in {"for_epoch", "for_car", "denormalize", "print"} => Finite2(t0, t1)
    /\ \A j \in Exports : Finite2(out[j].vals[1], out[j].vals[2])

\* C2: a run that met an error (malformed file, empty dataset, degenerate
\* dataset with normalization, a parameter that became non-finite) exits
\* with a non-zero status after an error message.
C2_ErrorsExitNonZero ==
    pc = "exit" /\ ( \/ ~WellFormed
                     \/ Dataset = <<>>
                     \/ (normalize_km /\ AllSameKm(Dataset))
                     \/ ~Finite2(t0, t1) )
        => status = 1 /\ out # <<>> /\ out[Len(out)].kind = "ft_linear_regression:"

\* C3: with normalization requested, a non-empty dataset whose km values are
\* all the same fails with the division-by-zero error of the range before any
\* epoch runs, prints no fitted parameters and exits with status 1.
C3_DegenerateRangeFails ==
    WellFormed /\ Dataset # <<>> /\ AllSameKm(Dataset) /\ normalize_km
        => /\ pc \in {"main", "get_minmax", "normalize", "raised", "exit"}
           /\ updates = 0
           /\ Exports = {}
           /\ pc \in {"raised", "exit"} => err = "ZeroDivisionError"
           /\ pc = "exit" => status = 1

C3_Witness ==
    /\ WellFormed /\ Len(Dataset) = 2 /\ AllSameKm(Dataset) /\ normalize_km
    /\ pc = "exit" /\ err = "ZeroDivisionError"

\* C5: a run on a file with no rows fails at get_minmax with or without
\* normalization: it never reaches the epoch loop (so never divides by the
\* dataset size), prints no fitted parameters and exits with status 1.
C5_EmptyDatasetFails ==
    WellFormed /\ Dataset = <<>>
        => /\ pc \in {"main", "get_minmax", "raised", "exit"}
           /\ updates = 0
           /\ Exports = {}
           /\ pc \in {"raised", "exit"} => err = "ValueError"
           /\ pc = "exit" => status = 1

C5_Witness ==
    WellFormed /\ Dataset = <<>> /\ ~normalize_km /\ pc = "exit" /\ status = 1

\* C6: a run that ends in an error (malformed file, empty dataset, degenerate
\* range, a parameter that became non-finite) never prints the export
\* statement; the statement is printed only after all epochs have completed,
\* and at most once.
C6_NoExportOnFailure ==
    /\ Cardinality(Exports) <= 1
    /\ Exports # {} =>
         /\ epoch = epochs /\ updates = epochs /\ err = ""
         /\ WellFormed /\ Dataset # <<>>
         /\ ~(normalize_km /\ AllSameKm(Dataset))
         /\ Finite2(t0, t1)

\* C10: a run starts from (0.0, 0.0); without divergence it performs exactly
\* epochs updates one after another and then prints the pair, denormalized
\* exactly when normalization was requested; once an update has produced a
\* non-finite parameter no further epoch is run.
C10_StopsAtFirstNonFinite ==
    /\ pc = "for_epoch" /\ epoch = 0 => t0 = Zero /\ t1 = Zero /\ updates = 0
    /\ InLoop => updates = epoch + (IF pc = "isnan" THEN 1 ELSE 0)
    /\ Exports # {} => updates = epochs
    /\ \A j \in Exports :
         normalize_km =>
            out[j].vals = denormalize_theta(t0_norm, t1_norm,
                                            LeastKm(Dataset), GreatestKm(Dataset))
    /\ ~normalize_km => pc # "denormalize"
    /\ pc = "for_car" => Finite2(t0, t1)

ExactAdd(a, b) ==
    LET r == FAdd(a, b)
    IN  Finite2(a, b) /\ isfinite(r) /\ r.n * (a.d * b.d) = (a.n * b.d + b.n * a.d) * r.d

ExactSub(a, b) == ExactAdd(a, FNeg(b))

ExactMul(a, b) ==
    LET r == FMul(a, b)
    IN  Finite2(a, b) /\ isfinite(r) /\ r.n * (a.d * b.d) = (a.n * b.n) * r.d

ExactDiv(a, b) ==
    LET r == FDiv(a, b)
    IN  Finite2(a, b) /\ b.n # 0 /\ isfinite(r) /\ r.n * (a.d * b.n) = (a.n * b.d) * r.d

\* Whether no operation rounds in denormalize_theta(a, b, mn, mx) followed by
\* estimate_price at km, nor in normalize(km, mn, mx) followed by
\* estimate_price with a and b.
NoRounding(a, b, mn, mx, km) ==
    LET range == FSub(mx, mn)
        slope == FDiv(b, range)
    IN  /\ ExactSub(mx, mn)
        /\ ExactDiv(b, range)
        /\ ExactMul(slope, mn)
        /\ ExactSub(a, FMul(slope, mn))
        /\ ExactMul(slope, km)
        /\ ExactAdd(FSub(a, FMul(slope, mn)), FMul(slope, km))
        /\ ExactSub(km, mn)
        /\ ExactDiv(FSub(km, mn), range)
        /\ ExactMul(b, FDiv(FSub(km, mn), range))
        /\ ExactAdd(a, FMul(b, FDiv(FSub(km, mn), range)))

RawKms == {Round(n, 2) : n \in {0, 1, 4, 6, 10}}

\* C4 as stated: the prediction from the denormalized parameters at any raw
\* km equals the prediction from the normalized parameters at the
\* normalized km.
C4_RoundTripEqual ==
    pc = "print" =>
        \A km \in RawKms :
            estimate_price(t0, t1, km)
                = estimate_price(t0_norm, t1_norm, normalize(km, min_km, max_km))

\* C4 amended: the denormalized slope is t1 / (max - min) and the intercept
\* t0 - slope * min for the range that normalized the dataset, and the two
\* predictions are equal whenever no operation of the two computations
\* rounds or overflows, at any raw km and at every km of the dataset.
C4_RoundTripExact ==
    pc = "print" =>
        LET mn == LeastKm(Dataset)
            mx == GreatestKm(Dataset)
        IN  /\ t1 = FDiv(t1_norm, FSub(mx, mn))
            /\ t0 = FSub(t0_norm, FMul(t1, mn))
            /\ \A km \in RawKms :
                 NoRounding(t0_norm, t1_norm, mn, mx, km) =>
                    estimate_price(t0, t1, km)
                        = estimate_price(t0_norm, t1_norm, normalize(km, mn, mx))
            /\ \A j \in 1..Len(cars) :
                 NoRounding(t0_norm, t1_norm, mn, mx, csv_cars[j].km) =>
                    estimate_price(t0, t1, csv_cars[j].km)
                        = estimate_price(t0_norm, t1_norm, cars[j].km)

C4_Witness ==
    /\ pc = "print"
    /\ min_km # Zero /\ FSub(max_km, min_km) # One
    /\ t1_norm \notin {Zero, One} /\ t0_norm # Zero
    /\ \E km \in RawKms :
         /\ km \notin {min_km, max_km}
         /\ NoRounding(t0_norm, t1_norm, min_km, max_km, km)
         /\ estimate_price(t0, t1, km) # t0

\* C8: with neither parameter persisted the predictor uses (0.0, 0.0), prints
\* 0.0 for every mileage and exits normally; with one of them absent only
\* that one defaults to 0.0.
C8_AbsentParametersPredictZero ==
    /\ pc \in {"estimate", "return"} =>
         /\ t0 = IF env["T0_ENVAR_NAME"] = Absent THEN Zero
                 ELSE float(env["T0_ENVAR_NAME"])
         /\ t1 = IF env["T1_ENVAR_NAME"] = Absent THEN Zero
                 ELSE float(env["T1_ENVAR_NAME"])
    /\ env = NoEnv =>
         /\ pc # "raised"
         /\ pc = "exit" => status = 0 /\ out = <<Printed("price", 0, <<Zero>>)>>

\* The sums of an epoch over the first n cars from the parameters (a, b):
\* of the errors, and of the errors times km.
RECURSIVE SumError(_, _, _, _)
SumError(cs, n, a, b) ==
    IF n = 0 THEN Zero
    ELSE FAdd(SumError(cs, n - 1, a, b),
              FSub(FAdd(a, FMul(b, cs[n].km)), cs[n].price))

RECURSIVE SumErrorKm(_, _, _, _)
SumErrorKm(cs, n, a, b) ==
    IF n = 0 THEN Zero
    ELSE FAdd(SumErrorKm(cs, n - 1, a, b),
              FMul(FSub(FAdd(a, FMul(b, cs[n].km)), cs[n].price), cs[n].km))

=============================================================================
